---- MODULE Spec2Model ----
(***************************************************************************)
(* Model of matching.py: match(G), the wrapper around the Munkres solver   *)
(* that classifies an optimal assignment of the padded square cost matrix, *)
(* and full_left_match(G), the loop that calls match on a shrinking edge   *)
(* list until every left id has found a match.                             *)
(*                                                                         *)
(* A graph is the edge list G of match: a set of triples <<v1, v2, value>>.*)
(* Weights are naturals, on which the float64 arithmetic of numpy and of   *)
(* the Munkres solver is exact.                                            *)
(***************************************************************************)
EXTENDS Naturals, Integers, Sequences, FiniteSets, TLC

VARIABLES
  G,          \* the argument of full_left_match
  current_g,  \* full_left_match: current_g
  res,        \* full_left_match: res
  m,          \* full_left_match: m, the valid matches of the last match call
  s1,         \* full_left_match: s1, the unmatched left ids of the last call
  s2,         \* full_left_match: s2, the unmatched right ids of the last call
  pc,         \* "call": about to call match(current_g); "done"; "raised"
  err,        \* the exception that left full_left_match, "" if none
  g_in,       \* the graph the last match call received, {} before the first
  res_base    \* for every entry of res, Len(res) when its round began

vars == <<G, current_g, res, m, s1, s2, pc, err, g_in, res_base>>

\* ---------------------------------------------------------------- bounds
\* The largest edge weight, and the largest edge list of the runs that are
\* followed to their end under fairness.
MaxW == 2
MaxLiveEdges == 3

Left == {"a", "c", "y"}
Right == {"b", "z"}
Weights == 0 .. MaxW
NoEdge == MaxW + 1

\* The edge lists the caller can pass: any set of edges over Left x Right
\* with one weight per (left, right) pair (scheduler.py builds the list
\* from a dict keyed by the pair), the empty list included.
Graphs ==
  { { <<p[1], p[2], f[p]>> : p \in { q \in Left \X Right : f[q] # NoEdge } } :
      f \in [Left \X Right -> Weights \cup {NoEdge}] }

LiveGraphs == { g \in Graphs : Cardinality(g) <= MaxLiveEdges }

\* ---------------------------------------------------------------- helpers
Range(s) == { s[i] : i \in DOMAIN s }

RECURSIVE SetMax(_)
SetMax(S) ==
  LET x == CHOOSE x \in S : TRUE
  IN  IF S = {x} THEN x
      ELSE LET r == SetMax(S \ {x}) IN IF x > r THEN x ELSE r

\* ---------------------------------------------------------------- match
set1_ids(g) == { e[1] : e \in g }
set2_ids(g) == { e[2] : e \in g }

\* Variant: the "+ 1" is forgotten.
null_val_NoPlusOne(g) == SetMax({ e[3] : e \in g })
null_val(g) == SetMax({ e[3] : e \in g }) + 1

\* enumerate(set): the iteration order of a Python set is arbitrary, so
\* ind_to_s1 / ind_to_s2 is any bijection from 0..n-1 onto the ids.
Enumerations(ids) ==
  { f \in [0 .. Cardinality(ids) - 1 -> ids] :
      \A i, j \in DOMAIN f : f[i] = f[j] => i = j }

nrows(g) == Cardinality(set1_ids(g))
ncols(g) == Cardinality(set2_ids(g))
maxdim(g) == IF nrows(g) > ncols(g) THEN nrows(g) ELSE ncols(g)

\* D = zeros((maxdim, maxdim)) + null_val, then D[r1, r2] = value per edge
D(g, nv, ind_to_s1, ind_to_s2) ==
  [ r1 \in 0 .. maxdim(g) - 1, r2 \in 0 .. maxdim(g) - 1 |->
      IF /\ r1 \in DOMAIN ind_to_s1
         /\ r2 \in DOMAIN ind_to_s2
         /\ \E e \in g : e[1] = ind_to_s1[r1] /\ e[2] = ind_to_s2[r2]
      THEN (CHOOSE e \in g : e[1] = ind_to_s1[r1] /\ e[2] = ind_to_s2[r2])[3]
      ELSE nv ]

\* The perfect assignments of an n x n matrix: one column per row.
Assignments(n) ==
  { a \in [0 .. n - 1 -> 0 .. n - 1] :
      \A i, j \in 0 .. n - 1 : a[i] = a[j] => i = j }

RECURSIVE CostUpTo(_, _, _)
CostUpTo(Dm, a, k) ==
  IF k < 0 THEN 0 ELSE Dm[k, a[k]] + CostUpTo(Dm, a, k - 1)

Cost(Dm, n, a) == CostUpTo(Dm, a, n - 1)

\* Variant: every row takes its own cheapest column, columns not kept apart.
compute_Greedy(Dm, n) ==
  { [ k \in 1 .. n |-> <<k - 1, a[k - 1]>> ] :
      a \in { b \in [0 .. n - 1 -> 0 .. n - 1] :
                \A i, j \in 0 .. n - 1 : Dm[i, b[i]] <= Dm[i, j] } }

\* Variant: a highest-cost perfect assignment.
compute_Highest(Dm, n) ==
  UNION { { [ k \in 1 .. n |-> <<k - 1, p[1][k - 1]>> ] :
              p \in { q \in costed : \A o \in costed : q[2] >= o[2] } } :
            costed \in { { <<a, Cost(Dm, n, a)>> : a \in Assignments(n) } } }

\* solver.compute(D.copy()): the Munkres solver returns the (row, column)
\* pairs of a lowest-cost perfect assignment, in row order; which of several
\* lowest-cost assignments it returns is left open. costed is the table of
\* the assignments with their costs.
compute(Dm, n) ==
  UNION { { [ k \in 1 .. n |-> <<k - 1, p[1][k - 1]>> ] :
              p \in { q \in costed : \A o \in costed : q[2] <= o[2] } } :
            costed \in { { <<a, Cost(Dm, n, a)>> : a \in Assignments(n) } } }

\* Variant: "elif r2 in ind_to_s2", so an invalid pair of two real ids
\* reports only its left id.
RECURSIVE Classify_Elif(_, _, _, _, _, _)
Classify_Elif(Dm, nv, ind_to_s1, ind_to_s2, matching, k) ==
  IF k = 0
  THEN [final_matching |-> <<>>, not_matched_s1 |-> <<>>, not_matched_s2 |-> <<>>]
  ELSE
    LET prev == Classify_Elif(Dm, nv, ind_to_s1, ind_to_s2, matching, k - 1)
        r1 == matching[k][1]
        r2 == matching[k][2]
    IN  IF r1 \notin DOMAIN ind_to_s1 /\ r2 \notin DOMAIN ind_to_s2
        THEN prev
        ELSE IF Dm[r1, r2] = nv
        THEN IF r1 \in DOMAIN ind_to_s1
             THEN [prev EXCEPT !.not_matched_s1 = Append(@, ind_to_s1[r1])]
             ELSE IF r2 \in DOMAIN ind_to_s2
             THEN [prev EXCEPT !.not_matched_s2 = Append(@, ind_to_s2[r2])]
             ELSE prev
        ELSE [prev EXCEPT !.final_matching =
                Append(@, <<ind_to_s1[r1], ind_to_s2[r2]>>)]

\* Variant: the test D[r1,r2] == null_val is replaced by a test that one of
\* the two nodes is a dummy, so a pair of real ids without an edge is kept.
RECURSIVE Classify_NoNullCheck(_, _, _, _, _, _)
Classify_NoNullCheck(Dm, nv, ind_to_s1, ind_to_s2, matching, k) ==
  IF k = 0
  THEN [final_matching |-> <<>>, not_matched_s1 |-> <<>>, not_matched_s2 |-> <<>>]
  ELSE
    LET prev == Classify_NoNullCheck(Dm, nv, ind_to_s1, ind_to_s2, matching, k - 1)
        r1 == matching[k][1]
        r2 == matching[k][2]
    IN  IF r1 \notin DOMAIN ind_to_s1 /\ r2 \notin DOMAIN ind_to_s2
        THEN prev
        ELSE IF r1 \notin DOMAIN ind_to_s1 \/ r2 \notin DOMAIN ind_to_s2
        THEN IF r1 \in DOMAIN ind_to_s1
             THEN [prev EXCEPT !.not_matched_s1 = Append(@, ind_to_s1[r1])]
             ELSE [prev EXCEPT !.not_matched_s2 = Append(@, ind_to_s2[r2])]
        ELSE [prev EXCEPT !.final_matching =
                Append(@, <<ind_to_s1[r1], ind_to_s2[r2]>>)]

\* The loop over matching: the three output lists after the first k pairs.
RECURSIVE Classify(_, _, _, _, _, _)
Classify(Dm, nv, ind_to_s1, ind_to_s2, matching, k) ==
  IF k = 0
  THEN [final_matching |-> <<>>, not_matched_s1 |-> <<>>, not_matched_s2 |-> <<>>]
  ELSE
    LET prev == Classify(Dm, nv, ind_to_s1, ind_to_s2, matching, k - 1)
        r1 == matching[k][1]
        r2 == matching[k][2]
    IN  IF r1 \notin DOMAIN ind_to_s1 /\ r2 \notin DOMAIN ind_to_s2
        THEN prev
        ELSE IF Dm[r1, r2] = nv
        THEN [prev EXCEPT
                !.not_matched_s1 = IF r1 \in DOMAIN ind_to_s1
                                   THEN Append(@, ind_to_s1[r1]) ELSE @,
                !.not_matched_s2 = IF r2 \in DOMAIN ind_to_s2
                                   THEN Append(@, ind_to_s2[r2]) ELSE @]
        ELSE [prev EXCEPT !.final_matching =
                Append(@, <<ind_to_s1[r1], ind_to_s2[r2]>>)]

\* match(g), g non-empty, with the enumeration orders of set1_ids and
\* set2_ids given: every triple it can return. nv, Dm and n are null_val, D
\* and maxdim of the call.
match(g, ind_to_s1, ind_to_s2) ==
  UNION { { Classify(t[2], t[1], ind_to_s1, ind_to_s2, matching, t[3]) :
              matching \in compute(t[2], t[3]) } :
            t \in { <<nv, D(g, nv, ind_to_s1, ind_to_s2), maxdim(g)>> :
                      nv \in { null_val(g) } } }

\* Variant: keeps the edges of the first unmatched left id only.
filter_FirstOnly(unmatched, g) == { e \in g : e[1] = unmatched[1] }

\* Variant: "v1 not in s1", keeps the edges of the matched left ids.
filter_Inverted(unmatched, g) == { e \in g : e[1] \notin Range(unmatched) }

\* filter(lambda (v1,v2,_): v1 in s1, current_g)
filter(unmatched, g) == { e \in g : e[1] \in Range(unmatched) }

\* ---------------------------------------------------------------- full_left_match
InitOn(graphs) ==
  /\ G \in graphs
  /\ current_g = G
  /\ res = <<>>
  /\ m = <<>>
  /\ s1 = <<>>
  /\ s2 = <<>>
  /\ pc = "call"
  /\ err = ""
  /\ g_in = {}
  /\ res_base = <<>>

Init == InitOn(Graphs)

\* match(current_g) with no edge: max() of an empty sequence raises
\* ValueError at the computation of null_val, and the exception leaves
\* full_left_match.
MatchRaises ==
  /\ pc = "call"
  /\ current_g = {}
  /\ pc' = "raised"
  /\ err' = "ValueError"
  /\ g_in' = current_g
  /\ UNCHANGED <<G, current_g, res, m, s1, s2, res_base>>

\* One pass of the loop body: m,s1,s2 = match(current_g); res += m; then
\* break if s1 is empty, else filter current_g and go round again.
Round ==
  /\ pc = "call"
  /\ current_g # {}
  /\ \E ind_to_s1 \in Enumerations(set1_ids(current_g)),
        ind_to_s2 \in Enumerations(set2_ids(current_g)) :
       \E r \in match(current_g, ind_to_s1, ind_to_s2) :
         /\ m' = r.final_matching
         /\ s1' = r.not_matched_s1
         /\ s2' = r.not_matched_s2
         /\ res' = res \o r.final_matching
         /\ res_base' = res_base \o [ i \in 1 .. Len(r.final_matching) |-> Len(res) ]
         /\ IF r.not_matched_s1 = <<>>
            THEN pc' = "done" /\ current_g' = current_g
            ELSE pc' = "call" /\ current_g' = filter(r.not_matched_s1, current_g)
  /\ g_in' = current_g
  /\ UNCHANGED <<G, err>>

Next == MatchRaises \/ Round

Spec == Init /\ [][Next]_vars

\* full_left_match is one sequential call: it keeps running until it
\* returns or raises.
LiveSpec == InitOn(LiveGraphs) /\ [][Next]_vars /\ WF_vars(Next)

\* ---------------------------------------------------------------- properties
LeftsOf(seq) == { seq[i][1] : i \in DOMAIN seq }
RightsOf(seq) == { seq[i][2] : i \in DOMAIN seq }
IsEdge(g, v1, v2) == \E e \in g : e[1] = v1 /\ e[2] = v2
WeightOf(g, v1, v2) == (CHOOSE e \in g : e[1] = v1 /\ e[2] = v2)[3]

RECURSIVE SeqWeight(_, _, _)
SeqWeight(g, seq, k) ==
  IF k = 0 THEN 0
  ELSE (IF IsEdge(g, seq[k][1], seq[k][2])
        THEN WeightOf(g, seq[k][1], seq[k][2]) ELSE 0) + SeqWeight(g, seq, k - 1)

RECURSIVE MapWeight(_, _, _)
MapWeight(g, beta, ids) ==
  IF ids = {} THEN 0
  ELSE LET v == CHOOSE v \in ids : TRUE
       IN  WeightOf(g, v, beta[v]) + MapWeight(g, beta, ids \ {v})

\* The perfect assignments of the padded matrix of g that use real cells
\* only: the matrix has no dummy row or column and every pair is an edge.
PerfectReal(g) ==
  IF nrows(g) # ncols(g) THEN {}
  ELSE { beta \in [set1_ids(g) -> set2_ids(g)] :
           /\ \A v, w \in set1_ids(g) : beta[v] = beta[w] => v = w
           /\ \A v \in set1_ids(g) : IsEdge(g, v, beta[v]) }

\* A match call has returned; g_in, m, s1, s2 are its argument and results.
Called == g_in # {}

\* C1 as stated: in the list full_left_match accumulates, no right id
\* appears in more than one pair, within a round or across rounds.
C1_NoRightReuse ==
  \A i, j \in DOMAIN res : i # j => res[i][2] # res[j][2]

\* C1 amended: no right id appears in more than one pair of the same round;
\* pairs appended by different rounds may share a right id.
C1_NoRightReuseWithinRound ==
  \A i, j \in DOMAIN res :
    (i # j /\ res_base[i] = res_base[j]) => res[i][2] # res[j][2]

C1_Witness ==
  /\ pc = "done"
  /\ \E i, j \in DOMAIN res : i # j /\ res_base[i] = res_base[j]
  /\ \E i, j \in DOMAIN res : res_base[i] # res_base[j] /\ res[i][2] = res[j][2]

\* C2: when full_left_match returns, every left id with an edge in the
\* input graph is the left component of some returned pair.
C2_EveryLeftMatched ==
  pc = "done" => \A v \in set1_ids(G) : v \in LeftsOf(res)

C2_Witness ==
  /\ pc = "done"
  /\ { e \in G : e[1] \in {"a", "c"} } = { <<"a", "b", 1>>, <<"c", "b", 2>> }
  /\ <<"a", "b">> \in Range(res)
  /\ <<"c", "b">> \in Range(res)

C4_MatchedLeftLeaves ==
  /\ pc = "call" => \A e \in current_g : e[1] \notin LeftsOf(res)
  /\ \A i, j \in DOMAIN res : i # j => res[i][1] # res[j][1]

C4_Witness ==
  /\ pc = "call"
  /\ res # <<>>
  /\ current_g # {}
  /\ \E e \in G : e[1] \in LeftsOf(res)

\* C5: one call of match puts every left id of its graph exactly once in
\* the valid matches or in the unmatched-left list, and every right id
\* exactly once in the valid matches or in the unmatched-right list.
C5_ClassifiedOnce ==
  Called =>
    /\ LeftsOf(m) \cup Range(s1) = set1_ids(g_in)
    /\ LeftsOf(m) \cap Range(s1) = {}
    /\ Len(m) + Len(s1) = nrows(g_in)
    /\ RightsOf(m) \cup Range(s2) = set2_ids(g_in)
    /\ RightsOf(m) \cap Range(s2) = {}
    /\ Len(m) + Len(s2) = ncols(g_in)

C5_Witness ==
  /\ Called
  /\ m # <<>>
  /\ s1 # <<>>
  /\ s2 # <<>>

\* C6: the valid matches of one call of match are edges of its graph, and
\* no left id and no right id occurs in two of them.
C6_ValidMatchesAreAMatching ==
  Called =>
    /\ \A i \in DOMAIN m : IsEdge(g_in, m[i][1], m[i][2])
    /\ \A i, j \in DOMAIN m : i # j => (m[i][1] # m[j][1] /\ m[i][2] # m[j][2])

C6_Witness ==
  /\ Called
  /\ Len(m) = 2
  /\ \E v \in set1_ids(g_in), w \in set2_ids(g_in) : ~IsEdge(g_in, v, w)

\* C7: the weights of the valid matches of one call sum to at most the
\* weight of any perfect assignment that uses only real cells.
C7_Optimal ==
  Called =>
    \A beta \in PerfectReal(g_in) :
      SeqWeight(g_in, m, Len(m)) <= MapWeight(g_in, beta, set1_ids(g_in))

C7_Witness ==
  /\ Called
  /\ Cardinality(PerfectReal(g_in)) = 2
  /\ SeqWeight(g_in, m, Len(m)) > 0
  /\ \E beta \in PerfectReal(g_in) :
       SeqWeight(g_in, m, Len(m)) < MapWeight(g_in, beta, set1_ids(g_in))

\* C8 as stated: a call with an empty edge list ends in an explicit
\* EmptyGraphError, and returns no result.
C8_ExplicitEmptyGraphError ==
  /\ pc = "raised" => err = "EmptyGraphError"
  /\ (G = {} /\ pc # "call") => (pc = "raised" /\ res = <<>> /\ m = <<>>)

\* C9: when all edges share one right id and the weights are pairwise
\* distinct, match returns the one pair of the cheapest left id, lists
\* every other left id as unmatched and lists no right id as unmatched.
OneRightDistinct(g) ==
  /\ Cardinality(set2_ids(g)) = 1
  /\ \A e, f \in g : e # f => e[3] # f[3]

Cheapest(g) == CHOOSE e \in g : \A f \in g : e[3] <= f[3]

====
